---- MODULE Spec2Model ----
(***************************************************************************)
(* Model of QasmParserLib (src/QasmParserLib/src/parser.cpp, parser.h):    *)
(* the loader Parser::readLines, the decomposition Parser::parseStrInt,    *)
(* the code generator Parser::parseOpToQasm and the three compilation      *)
(* entry points parseCircuitSeq, parseCircuit(useOpenMP = true) and        *)
(* parseCircuit(useOpenMP = false) with their parallel workers.            *)
(*                                                                         *)
(* Texts (std::string holding OpenQASM) are sequences of instruction       *)
(* records, one record per emitted line of text.  An input line is the     *)
(* sequence of its whitespace-separated fields; the first field is a       *)
(* sequence of characters, the others are the field's characters as a      *)
(* string.                                                                 *)
(***************************************************************************)
EXTENDS Integers, Sequences, FiniteSets, TLC

(***************************************************************************)
(* Bounds of the model.                                                    *)
(***************************************************************************)
MaxLines == 2

(* the longest basis string of the single-term inputs *)
MaxQubits == 4

(* std::numeric_limits<unsigned long>::max(), the value 0 - 1 wraps to.   *)
(* It stands for 2^64 - 1; TLC's integers are 32 bits wide, so the largest *)
(* of them takes its place.                                                *)
ULONG_MAX == 2147483647

(***************************************************************************)
(* Plain helpers.                                                          *)
(***************************************************************************)
Max2(a, b) == IF a >= b THEN a ELSE b

RECURSIVE MaxElement(_)
MaxElement(vec) ==
    IF Len(vec) = 1 THEN vec[1] ELSE Max2(vec[1], MaxElement(Tail(vec)))

RECURSIVE Concat(_)
Concat(texts) ==
    IF texts = <<>> THEN <<>> ELSE Head(texts) \o Concat(Tail(texts))

(* unsigned long subtraction x - 1 *)
MinusOne(x) == IF x = 0 THEN ULONG_MAX ELSE x - 1

(***************************************************************************)
(* Input fields.                                                           *)
(***************************************************************************)
(* std::optional and values that may be absent: empty, or holding v *)
NoValue == <<>>

Some(v) == << v >>

ValueOf(opt) == opt[1]

(* operator>>(float&): the field's value in tenths, or failure *)
ParseFloat(tok) ==
    CASE tok = "1.0" -> [ok |-> TRUE, val |-> 10]
      [] tok = "1"   -> [ok |-> TRUE, val |-> 10]
      [] tok = "2.5" -> [ok |-> TRUE, val |-> 25]
      [] tok = "0"   -> [ok |-> TRUE, val |-> 0]
      [] tok = "0.0" -> [ok |-> TRUE, val |-> 0]
      [] OTHER       -> [ok |-> FALSE, val |-> 0]

(* fmt::format("{}", float): shortest text that reads back as the value *)
FormatFloat(val) ==
    CASE val = 10 -> "1"
      [] val = 25 -> "2.5"
      [] val = 5  -> "0.5"
      [] val = 20 -> "2"
      [] OTHER    -> "0"

(* std::to_string(float): "%f", six decimals *)
StdToString(val) ==
    CASE val = 10 -> "1.000000"
      [] val = 25 -> "2.500000"
      [] val = 5  -> "0.500000"
      [] val = 20 -> "2.000000"
      [] OTHER    -> "0.000000"

(* operator>>(long long&): the field's value, or failure *)
ParseLongLong(tok) ==
    CASE tok = "-1" -> [ok |-> TRUE, val |-> -1]
      [] tok = "0"  -> [ok |-> TRUE, val |-> 0]
      [] tok = "1"  -> [ok |-> TRUE, val |-> 1]
      [] tok = "2"  -> [ok |-> TRUE, val |-> 2]
      [] tok = "3"  -> [ok |-> TRUE, val |-> 3]
      (* 2^64 does not fit long long: num_get sets failbit *)
      [] tok = "18446744073709551616" -> [ok |-> FALSE, val |-> 0]
      [] OTHER      -> [ok |-> FALSE, val |-> 0]

(***************************************************************************)
(* Emitted text: one record per line of OpenQASM.                          *)
(***************************************************************************)
NoAngle == <<>>

Instr(op, q, t, ang) == [op |-> op, q |-> q, t |-> t, ang |-> ang]

(***************************************************************************)
(* Parser::parseStrInt: the X, Y and Z positions of a basis string, or the *)
(* std::invalid_argument thrown at the first unsupported character.        *)
(***************************************************************************)
RECURSIVE ScanFrom(_, _, _)
ScanFrom(in, i, vecs) ==
    IF i > Len(in) THEN [ok |-> TRUE, intRep |-> vecs]
    ELSE CASE in[i] = "I" -> ScanFrom(in, i + 1, vecs)
           [] in[i] = "X" -> ScanFrom(in, i + 1, [vecs EXCEPT ![1] = Append(@, i)])
           [] in[i] = "Y" -> ScanFrom(in, i + 1, [vecs EXCEPT ![2] = Append(@, i)])
           [] in[i] = "Z" -> ScanFrom(in, i + 1, [vecs EXCEPT ![3] = Append(@, i)])
           [] OTHER       -> [ok |-> FALSE, intRep |-> <<>>]

(* parseStrInt appending std::distance(in.begin(), ch), the 0-based position *)
RECURSIVE ScanFromZeroBased(_, _, _)
ScanFromZeroBased(in, i, vecs) ==
    IF i > Len(in) THEN [ok |-> TRUE, intRep |-> vecs]
    ELSE CASE in[i] = "I" -> ScanFromZeroBased(in, i + 1, vecs)
           [] in[i] = "X" ->
                ScanFromZeroBased(in, i + 1, [vecs EXCEPT ![1] = Append(@, i - 1)])
           [] in[i] = "Y" ->
                ScanFromZeroBased(in, i + 1, [vecs EXCEPT ![2] = Append(@, i - 1)])
           [] in[i] = "Z" ->
                ScanFromZeroBased(in, i + 1, [vecs EXCEPT ![3] = Append(@, i - 1)])
           [] OTHER       -> [ok |-> FALSE, intRep |-> <<>>]

parseStrIntZeroBased(in) == ScanFromZeroBased(in, 1, << <<>>, <<>>, <<>> >>)

parseStrInt(in) == ScanFrom(in, 1, << <<>>, <<>>, <<>> >>)

(***************************************************************************)
(* Parser::parseOpToQasm.                                                  *)
(***************************************************************************)
(* LastUsed that leaves the Z list out of the maximum *)
LastUsedWithoutZ(intOp) ==
    Max2(IF intOp[1] = <<>> THEN 0 ELSE MaxElement(intOp[1]),
         IF intOp[2] = <<>> THEN 0 ELSE MaxElement(intOp[2]))

(* std::max over the three lists' std::max_element, 0 for an empty list *)
LastUsed(intOp) ==
    Max2(IF intOp[1] = <<>> THEN 0 ELSE MaxElement(intOp[1]),
         Max2(IF intOp[2] = <<>> THEN 0 ELSE MaxElement(intOp[2]),
              IF intOp[3] = <<>> THEN 0 ELSE MaxElement(intOp[3])))

(* std::distance(begin, std::find(begin, end, vec)): the first equal list *)
FindDistance(intOp, vec) ==
    (CHOOSE i \in 1..Len(intOp) :
        /\ intOp[i] = vec
        /\ \A j \in 1..(i - 1) : intOp[j] # vec) - 1

CxInstr(qubitIdx, lastUsed) ==
    Instr("cx", MinusOne(qubitIdx), MinusOne(lastUsed), NoAngle)

(* QubitStep that wraps the pivot's rotation pair in place *)
QubitStepPivotInPlace(axis, qubitIdx, lastUsed, acc) ==
    LET rotBefore == IF axis = 0 THEN "ry(pi/2)" ELSE "rx(-pi/2)"
        rotAfter  == IF axis = 0 THEN "ry(-pi/2)" ELSE "rx(pi/2)"
        before == << Instr(rotBefore, MinusOne(qubitIdx), 0, NoAngle) >>
        after  == << Instr(rotAfter, MinusOne(qubitIdx), 0, NoAngle) >>
        cx     == << CxInstr(qubitIdx, lastUsed) >>
    IN  IF axis \in {0, 1}
        THEN IF qubitIdx = lastUsed
             THEN [acc EXCEPT !.qasmOp = before \o @ \o after]
             ELSE [acc EXCEPT !.qasmOp = (before \o cx) \o @ \o (cx \o after)]
        ELSE IF qubitIdx # lastUsed
             THEN [acc EXCEPT !.qasmOp = cx \o @ \o cx]
             ELSE acc

(* QubitStep with the rotations of the X and Y cases exchanged *)
QubitStepRotationsExchanged(axis, qubitIdx, lastUsed, acc) ==
    LET rotBefore == IF axis = 0 THEN "rx(-pi/2)" ELSE "ry(pi/2)"
        rotAfter  == IF axis = 0 THEN "rx(pi/2)" ELSE "ry(-pi/2)"
        before == << Instr(rotBefore, MinusOne(qubitIdx), 0, NoAngle) >>
        after  == << Instr(rotAfter, MinusOne(qubitIdx), 0, NoAngle) >>
        cx     == << CxInstr(qubitIdx, lastUsed) >>
    IN  IF axis \in {0, 1}
        THEN IF qubitIdx = lastUsed
             THEN [acc EXCEPT !.beforeLast = before, !.afterLast = after]
             ELSE [acc EXCEPT !.qasmOp = (before \o cx) \o @ \o (cx \o after)]
        ELSE IF qubitIdx # lastUsed
             THEN [acc EXCEPT !.qasmOp = cx \o @ \o cx]
             ELSE acc

(* QubitStep whose closing half has the rotation before the cx *)
QubitStepClosingHalfUnreversed(axis, qubitIdx, lastUsed, acc) ==
    LET rotBefore == IF axis = 0 THEN "ry(pi/2)" ELSE "rx(-pi/2)"
        rotAfter  == IF axis = 0 THEN "ry(-pi/2)" ELSE "rx(pi/2)"
        before == << Instr(rotBefore, MinusOne(qubitIdx), 0, NoAngle) >>
        after  == << Instr(rotAfter, MinusOne(qubitIdx), 0, NoAngle) >>
        cx     == << CxInstr(qubitIdx, lastUsed) >>
    IN  IF axis \in {0, 1}
        THEN IF qubitIdx = lastUsed
             THEN [acc EXCEPT !.beforeLast = before, !.afterLast = after]
             ELSE [acc EXCEPT !.qasmOp = (before \o cx) \o @ \o (after \o cx)]
        ELSE IF qubitIdx # lastUsed
             THEN [acc EXCEPT !.qasmOp = cx \o @ \o cx]
             ELSE acc

(* one iteration of an inner loop: acc = [qasmOp, beforeLast, afterLast] *)
QubitStep(axis, qubitIdx, lastUsed, acc) ==
    LET rotBefore == IF axis = 0 THEN "ry(pi/2)" ELSE "rx(-pi/2)"
        rotAfter  == IF axis = 0 THEN "ry(-pi/2)" ELSE "rx(pi/2)"
        before == << Instr(rotBefore, MinusOne(qubitIdx), 0, NoAngle) >>
        after  == << Instr(rotAfter, MinusOne(qubitIdx), 0, NoAngle) >>
        cx     == << CxInstr(qubitIdx, lastUsed) >>
    IN  IF axis \in {0, 1}
        THEN IF qubitIdx = lastUsed
             THEN [acc EXCEPT !.beforeLast = before, !.afterLast = after]
             ELSE [acc EXCEPT !.qasmOp = (before \o cx) \o @ \o (cx \o after)]
        ELSE IF qubitIdx # lastUsed
             THEN [acc EXCEPT !.qasmOp = cx \o @ \o cx]
             ELSE acc

RECURSIVE VecLoop(_, _, _, _, _)
VecLoop(axis, vec, k, lastUsed, acc) ==
    IF k > Len(vec) THEN acc
    ELSE VecLoop(axis, vec, k + 1, lastUsed, QubitStep(axis, vec[k], lastUsed, acc))

RECURSIVE OuterLoop(_, _, _, _)
OuterLoop(intOp, v, lastUsed, acc) ==
    IF v > Len(intOp) THEN acc
    ELSE OuterLoop(intOp, v + 1, lastUsed,
                   VecLoop(FindDistance(intOp, intOp[v]), intOp[v], 1, lastUsed, acc))

CommentLine(index) == Instr("// New operator from line", index, 0, NoAngle)

parseOpToQasm(qop, mupText) ==
    LET lastUsed == LastUsed(qop.intOp)
        rz == Instr("rz", MinusOne(lastUsed), 0,
                    << mupText, FormatFloat(qop.coef), qop.param >>)
        acc == OuterLoop(qop.intOp, 1, lastUsed,
                         [qasmOp |-> << rz >>, beforeLast |-> <<>>, afterLast |-> <<>>])
    IN  << CommentLine(qop.index) >> \o acc.beforeLast \o acc.qasmOp \o acc.afterLast

(***************************************************************************)
(* Parser::errorCheck: the message of the exception thrown, or NoValue.    *)
(* The comparison param > ULONG_MAX is made in unsigned long, where it is  *)
(* never true of a long long that is not negative.                         *)
(***************************************************************************)
(* errorCheck without the comparison of the length with numberQubits *)
errorCheckWithoutLength(str, coef, param, nQubits) ==
    IF str = <<>> THEN Some("No operator provided!")
    ELSE IF coef = 0 THEN Some("Zero coefficient!")
    ELSE IF param < 0 THEN Some("Negative parameter!")
    ELSE IF param > ULONG_MAX THEN Some("Parameter out of bound!")
    ELSE NoValue

errorCheck(str, coef, param, nQubits) ==
    IF str = <<>> THEN Some("No operator provided!")
    ELSE IF Len(str) # nQubits
    THEN Some("Non-matching length of string representation!")
    ELSE IF coef = 0 THEN Some("Zero coefficient!")
    ELSE IF param < 0 THEN Some("Negative parameter!")
    ELSE IF param > ULONG_MAX THEN Some("Parameter out of bound!")
    ELSE NoValue

(* is >> strRep >> coef >> checkParam: the three leading fields *)
Extract(line) ==
    IF /\ Len(line) >= 3
       /\ ParseFloat(line[2]).ok
       /\ ParseLongLong(line[3]).ok
    THEN [ok |-> TRUE, strRep |-> line[1], coef |-> ParseFloat(line[2]).val,
          checkParam |-> ParseLongLong(line[3]).val]
    ELSE [ok |-> FALSE, strRep |-> <<>>, coef |-> 0, checkParam |-> 0]

(***************************************************************************)
(* The inputs of a call.                                                   *)
(***************************************************************************)
BasisStrings == { <<"X">>, <<"I">>, <<"A">>, <<"X", "Y">> }

(* lines of three fields that tokenize, with a nonzero coefficient *)
WellFormedLines ==
    { <<b, "1.0", "2">> : b \in BasisStrings }
    \cup { <<b, "1.0", "0">> : b \in { <<"X">>, <<"X", "Y">> } }

(* lines with a zero or non-numeric coefficient, a negative parameter, a    *)
(* parameter of 2^64, two fields, four fields, no field, and a line with    *)
(* several defects                                                          *)
DefectLines ==
    { << <<"X">>, "0", "2" >>, << <<"X">>, "abc", "2" >>, << <<"X">>, "1.0", "-1" >>,
      << <<"X">>, "1.0", "18446744073709551616" >>,
      << <<"X">>, "1.0" >>, << <<"X">>, "1.0", "2", "extra" >>, <<>>,
      << <<"X", "Y">>, "0", "-1" >> }

LineSet == WellFormedLines \cup DefectLines

RECURSIVE SeqsUpTo(_, _)
SeqsUpTo(S, n) ==
    IF n = 0 THEN { <<>> }
    ELSE LET shorter == SeqsUpTo(S, n - 1)
         IN  shorter \cup { Append(q, x) : q \in shorter, x \in S }

InputFiles ==
    { [open |-> TRUE, lines |-> ls] : ls \in SeqsUpTo(LineSet, MaxLines) }
    \cup { [open |-> FALSE, lines |-> <<>>] }

Entries == { "parseCircuitSeq", "parseCircuitOpenMP", "parseCircuitPar" }

Versions == { 2, 3, 0 }

(* the multiplier argument, in tenths *)
Multipliers == { NoValue, Some(20) }

OutFilenames == { NoValue, Some("out.txt") }

(* what an unsigned long that was never assigned may hold *)
Indeterminate == { 0, ULONG_MAX }

Terms == 1..MaxLines

(***************************************************************************)
(* State.                                                                  *)
(***************************************************************************)
VARIABLES
    inFile,         \* the input file: whether it opens, and its lines
    entry,          \* the entry point called
    version,        \* argument version
    multiplier,     \* argument multiplier
    outFilename,    \* argument outFilename
    call,           \* 1 during the first call, 2 during a repeated call
    firstResult,    \* the text the first call returned
    pc,             \* where the calling thread is
    lineIdx,        \* readLines: lineIdx
    numberQubits,   \* Parser::numberQubits
    mup,            \* Parser::mup
    operators,      \* Parser::operators
    wpc,            \* where the worker of each term is
    qasmOp,         \* each worker's local qasmOp
    parseOpMtx,     \* holder of std::mutex parseOpMtx (0: free)
    critical,       \* holders of the named omp critical sections (0: free)
    qasmOperators,  \* std::map qasmOperators
    inserted,       \* the keys of qasmOperators in the order they were written
    cerr,           \* what printError wrote to std::cerr
    qasm,           \* the local qasm
    outFile,        \* the content of the output file, NoValue if none was written
    result          \* the text returned, NoValue before the return

args == << inFile, entry, version, multiplier, outFilename >>

parserVars == << lineIdx, numberQubits, mup, operators >>

workerVars == << wpc, qasmOp, parseOpMtx, critical, qasmOperators, inserted >>

vars == << args, call, firstResult, pc, parserVars, workerVars, cerr, qasm,
           outFile, result >>

(* InitialMup that leaves the multiplier argument unused *)
InitialMupIgnoringArgument(m) == << "0.5*" >>

(* Parser's default member initializer and lines 203-204 / 274-275 *)
InitialMup(m) == IF m = NoValue THEN << "0.5*" >> ELSE << StdToString(ValueOf(m)), "*" >>

(* the locals of a call after lines 200-205 / 269-277 *)
Constructed ==
    /\ pc = "readLines"
    /\ lineIdx = 0
    /\ numberQubits \in Indeterminate
    /\ mup = InitialMup(multiplier)
    /\ operators = <<>>
    /\ wpc = [k \in Terms |-> "idle"]
    /\ qasmOp = [k \in Terms |-> <<>>]
    /\ parseOpMtx = 0
    /\ critical = [print |-> 0, qasmOperator |-> 0]
    /\ qasmOperators = <<>>
    /\ inserted = <<>>
    /\ qasm = <<>>
    /\ result = NoValue

Init ==
    /\ inFile \in InputFiles
    /\ entry \in Entries
    /\ version \in Versions
    /\ multiplier \in Multipliers
    /\ outFilename \in OutFilenames
    /\ call = 1
    /\ firstResult = NoValue
    /\ cerr = <<>>
    /\ outFile = NoValue
    /\ Constructed

(***************************************************************************)
(* Parser::readLines, one action per iteration of the getline loop.        *)
(* printError writes the line number and the message to std::cerr and      *)
(* calls std::exit.                                                        *)
(***************************************************************************)
QuantumOperator(index, strRep, coef, param) ==
    [index |-> index, strRep |-> strRep, intOp |-> <<>>, coef |-> coef,
     param |-> param]

ErrorReport(idx, errMessage) == [idx |-> idx, errMessage |-> errMessage]

(* readLine that stores the raw parameter, 0 included, as it was read *)
readLineKeepingZero(line, idx, nQubitsBefore) ==
    LET ex == Extract(line)
        nQubits == IF idx = 1 THEN Len(ex.strRep) ELSE nQubitsBefore
        thrown == errorCheck(ex.strRep, ex.coef, ex.checkParam, nQubits)
    IN  IF ~ex.ok
        THEN [error |-> Some("Wrong format!"), numberQubits |-> nQubitsBefore,
              qop |-> NoValue]
        ELSE IF thrown # NoValue
        THEN [error |-> thrown, numberQubits |-> nQubits, qop |-> NoValue]
        ELSE [error |-> NoValue, numberQubits |-> nQubits,
              qop |-> Some(QuantumOperator(idx, ex.strRep, ex.coef, ex.checkParam))]

(* readLine that replaces a raw parameter 0 by 1 on every line *)
readLineNormalizingToOne(line, idx, nQubitsBefore) ==
    LET ex == Extract(line)
        nQubits == IF idx = 1 THEN Len(ex.strRep) ELSE nQubitsBefore
        thrown == errorCheck(ex.strRep, ex.coef, ex.checkParam, nQubits)
        param == IF ex.checkParam = 0 THEN 1 ELSE ex.checkParam
    IN  IF ~ex.ok
        THEN [error |-> Some("Wrong format!"), numberQubits |-> nQubitsBefore,
              qop |-> NoValue]
        ELSE IF thrown # NoValue
        THEN [error |-> thrown, numberQubits |-> nQubits, qop |-> NoValue]
        ELSE [error |-> NoValue, numberQubits |-> nQubits,
              qop |-> Some(QuantumOperator(idx, ex.strRep, ex.coef, param))]

(* the outcome of one iteration on the line numbered idx *)
readLine(line, idx, nQubitsBefore) ==
    LET ex == Extract(line)
        nQubits == IF idx = 1 THEN Len(ex.strRep) ELSE nQubitsBefore
        thrown == errorCheck(ex.strRep, ex.coef, ex.checkParam, nQubits)
        param == IF ex.checkParam = 0 THEN idx ELSE ex.checkParam
    IN  IF ~ex.ok
        THEN [error |-> Some("Wrong format!"), numberQubits |-> nQubitsBefore,
              qop |-> NoValue]
        ELSE IF thrown # NoValue
        THEN [error |-> thrown, numberQubits |-> nQubits, qop |-> NoValue]
        ELSE [error |-> NoValue, numberQubits |-> nQubits,
              qop |-> Some(QuantumOperator(idx, ex.strRep, ex.coef, param))]

(* ReadLine whose printError returns to the loop instead of calling std::exit *)
ReadLineWithoutExit ==
    /\ pc = "readLines"
    /\ inFile.open
    /\ lineIdx < Len(inFile.lines)
    /\ LET idx == lineIdx + 1
           r == readLine(inFile.lines[idx], idx, numberQubits)
       IN  /\ lineIdx' = idx
           /\ numberQubits' = r.numberQubits
           /\ IF r.error # NoValue
              THEN /\ cerr' = Append(cerr, ErrorReport(idx, ValueOf(r.error)))
                   /\ UNCHANGED << operators, pc >>
              ELSE /\ operators' = Append(operators, ValueOf(r.qop))
                   /\ UNCHANGED << cerr, pc >>
    /\ UNCHANGED << args, call, firstResult, mup, workerVars, qasm, outFile, result >>

ReadLine ==
    /\ pc = "readLines"
    /\ inFile.open
    /\ lineIdx < Len(inFile.lines)
    /\ LET idx == lineIdx + 1
           r == readLine(inFile.lines[idx], idx, numberQubits)
       IN  /\ lineIdx' = idx
           /\ numberQubits' = r.numberQubits
           /\ IF r.error # NoValue
              THEN /\ cerr' = Append(cerr, ErrorReport(idx, ValueOf(r.error)))
                   /\ pc' = "exited"
                   /\ UNCHANGED operators
              ELSE /\ operators' = Append(operators, ValueOf(r.qop))
                   /\ UNCHANGED << cerr, pc >>
    /\ UNCHANGED << args, call, firstResult, mup, workerVars, qasm, outFile, result >>

(* getline fails at the end of the file (or the file did not open) *)
ReadLinesReturns ==
    /\ pc = "readLines"
    /\ ~inFile.open \/ lineIdx = Len(inFile.lines)
    /\ pc' = "parallel"
    /\ UNCHANGED << args, call, firstResult, parserVars, workerVars, cerr, qasm,
                    outFile, result >>

(***************************************************************************)
(* The body run for one term by std::for_each(std::execution::par, ...)    *)
(* or by the omp parallel for.                                             *)
(***************************************************************************)
Started == { k \in Terms : k <= Len(operators) }

(* parseStrInt and parseOpToQasm, up to the lock; or the exception caught *)
Translate(k) ==
    /\ pc = "parallel"
    /\ k \in Started
    /\ wpc[k] = "idle"
    /\ LET parsed == parseStrInt(operators[k].strRep)
           op == [operators[k] EXCEPT !.intOp = parsed.intRep]
       IN  IF parsed.ok
           THEN /\ wpc' = [wpc EXCEPT ![k] = "generated"]
                /\ qasmOp' = [qasmOp EXCEPT ![k] = parseOpToQasm(op, mup)]
                /\ operators' = IF entry = "parseCircuitOpenMP"
                                THEN [operators EXCEPT ![k] = op]
                                ELSE operators
           ELSE /\ wpc' = [wpc EXCEPT ![k] = "caught"]
                /\ UNCHANGED << qasmOp, operators >>
    /\ UNCHANGED << args, call, firstResult, pc, lineIdx, numberQubits, mup,
                    parseOpMtx, critical, qasmOperators, inserted, cerr, qasm,
                    outFile, result >>

(* printError up to std::exit; under omp critical (print) in the OpenMP loop *)
PrintError(k) ==
    /\ pc = "parallel"
    /\ wpc[k] = "caught"
    /\ IF entry = "parseCircuitOpenMP"
       THEN /\ critical.print = 0
            /\ critical' = [critical EXCEPT !.print = k]
       ELSE UNCHANGED critical
    /\ cerr' = Append(cerr, ErrorReport(operators[k].index,
                                        "Unsupported character instruction!"))
    /\ wpc' = [wpc EXCEPT ![k] = "printed"]
    /\ UNCHANGED << args, call, firstResult, pc, parserVars, qasmOp, parseOpMtx,
                    qasmOperators, inserted, qasm, outFile, result >>

(* std::exit(EXIT_FAILURE) *)
Exit(k) ==
    /\ pc = "parallel"
    /\ wpc[k] = "printed"
    /\ pc' = "exited"
    /\ UNCHANGED << args, call, firstResult, parserVars, workerVars, cerr, qasm,
                    outFile, result >>

(* Lock that enters without waiting for the mutex or the critical section *)
LockWithoutMutex(k) ==
    /\ pc = "parallel"
    /\ wpc[k] = "generated"
    /\ IF entry = "parseCircuitOpenMP"
       THEN /\ critical' = [critical EXCEPT !.qasmOperator = k]
            /\ UNCHANGED parseOpMtx
       ELSE /\ parseOpMtx' = k
            /\ UNCHANGED critical
    /\ wpc' = [wpc EXCEPT ![k] = "locked"]
    /\ UNCHANGED << args, call, firstResult, pc, parserVars, qasmOp,
                    qasmOperators, inserted, cerr, qasm, outFile, result >>

(* std::lock_guard on parseOpMtx, or entry to omp critical (qasmOperator) *)
Lock(k) ==
    /\ pc = "parallel"
    /\ wpc[k] = "generated"
    /\ IF entry = "parseCircuitOpenMP"
       THEN /\ critical.qasmOperator = 0
            /\ critical' = [critical EXCEPT !.qasmOperator = k]
            /\ UNCHANGED parseOpMtx
       ELSE /\ parseOpMtx = 0
            /\ parseOpMtx' = k
            /\ UNCHANGED critical
    /\ wpc' = [wpc EXCEPT ![k] = "locked"]
    /\ UNCHANGED << args, call, firstResult, pc, parserVars, qasmOp,
                    qasmOperators, inserted, cerr, qasm, outFile, result >>

(* std::map::operator[] followed by the assignment *)
MapPut(m, key, value) ==
    [j \in (DOMAIN m) \cup {key} |-> IF j = key THEN value ELSE m[j]]

(* qasmOperators[op.index] = qasmOp, and the release that follows *)
Insert(k) ==
    /\ pc = "parallel"
    /\ wpc[k] = "locked"
    /\ qasmOperators' = MapPut(qasmOperators, operators[k].index, qasmOp[k])
    /\ inserted' = Append(inserted, operators[k].index)
    /\ IF entry = "parseCircuitOpenMP"
       THEN /\ critical' = [critical EXCEPT !.qasmOperator = 0]
            /\ UNCHANGED parseOpMtx
       ELSE /\ parseOpMtx' = 0
            /\ UNCHANGED critical
    /\ wpc' = [wpc EXCEPT ![k] = "done"]
    /\ UNCHANGED << args, call, firstResult, pc, parserVars, qasmOp, cerr, qasm,
                    outFile, result >>

(***************************************************************************)
(* After the parallel loop: the header, the concatenation, the return.     *)
(***************************************************************************)
HeaderLine(text, size) == Instr(text, size, 0, NoAngle)

(* Header that tests version = 2 for the 2.0 dialect and defaults to 3.0 *)
HeaderTestingVersionTwo(ver, nQubits) ==
    IF ver = 2
    THEN << HeaderLine("OPENQASM 2.0;", 0), HeaderLine("include qelib1.inc;", 0),
            HeaderLine("qreg q[];", nQubits), HeaderLine("creg c[];", nQubits) >>
    ELSE << HeaderLine("OPENQASM 3.0;", 0), HeaderLine("include stdgates.inc;", 0),
            HeaderLine("qubit[] q;", nQubits), HeaderLine("bit[] c;", nQubits) >>

(* the version specific header, lines 228-243 and 321-336 *)
Header(ver, nQubits) ==
    IF ver = 3
    THEN << HeaderLine("OPENQASM 3.0;", 0), HeaderLine("include stdgates.inc;", 0),
            HeaderLine("qubit[] q;", nQubits), HeaderLine("bit[] c;", nQubits) >>
    ELSE << HeaderLine("OPENQASM 2.0;", 0), HeaderLine("include qelib1.inc;", 0),
            HeaderLine("qreg q[];", nQubits), HeaderLine("creg c[];", nQubits) >>

(* BuildHeader that does not wait for the parallel loop to return *)
BuildHeaderWithoutJoin ==
    /\ pc = "parallel"
    /\ qasm' = Header(version, numberQubits) \o qasm
    /\ pc' = "writeOut"
    /\ UNCHANGED << args, call, firstResult, parserVars, workerVars, cerr,
                    outFile, result >>

(* the parallel loop has returned: every term's body has run to its end *)
BuildHeader ==
    /\ pc = "parallel"
    /\ \A k \in Started : wpc[k] = "done"
    /\ qasm' = Header(version, numberQubits) \o qasm
    /\ pc' = "writeOut"
    /\ UNCHANGED << args, call, firstResult, parserVars, workerVars, cerr,
                    outFile, result >>

(* for (const auto& [idx, op] : qasmOperators): the values in key order *)
RECURSIVE ValuesInKeyOrder(_)
ValuesInKeyOrder(m) ==
    IF DOMAIN m = {} THEN <<>>
    ELSE LET least == CHOOSE j \in DOMAIN m : \A i \in DOMAIN m : j <= i
         IN  << m[least] >>
             \o ValuesInKeyOrder([i \in (DOMAIN m) \ {least} |-> m[i]])

AllOperators(m) == Concat(ValuesInKeyOrder(m))

(* parseCircuitSeq, lines 245-264: [qasm, written] *)
writeOutSeq(text, m, fileName, opens) ==
    IF fileName = NoValue
    THEN [qasm |-> text \o AllOperators(m), written |-> NoValue]
    ELSE IF opens
    THEN [qasm |-> text \o AllOperators(m),
          written |-> Some(text \o AllOperators(m))]
    ELSE [qasm |-> text, written |-> NoValue]

(* parseCircuit, lines 338-361: [qasm, written] *)
writeOutPar(text, m, fileName, opens) ==
    LET appended == text \o AllOperators(m)
    IN  IF fileName = NoValue
        THEN [qasm |-> appended \o AllOperators(m), written |-> NoValue]
        ELSE IF opens
        THEN [qasm |-> appended \o AllOperators(m),
              written |-> Some(appended \o AllOperators(m))]
        ELSE [qasm |-> appended, written |-> NoValue]

WriteOut ==
    /\ pc = "writeOut"
    /\ \E opens \in BOOLEAN :
         LET w == IF entry = "parseCircuitSeq"
                  THEN writeOutSeq(qasm, qasmOperators, outFilename, opens)
                  ELSE writeOutPar(qasm, qasmOperators, outFilename, opens)
         IN  /\ outFilename = NoValue => opens
             /\ qasm' = w.qasm
             /\ result' = Some(w.qasm)
             /\ outFile' = IF w.written = NoValue THEN outFile ELSE w.written
    /\ pc' = "returned"
    /\ UNCHANGED << args, call, firstResult, parserVars, workerVars, cerr >>

(* the caller compiles the same input again, with the same arguments *)
CallAgain ==
    /\ pc = "returned"
    /\ call = 1
    /\ call' = 2
    /\ firstResult' = result
    /\ pc' = "readLines"
    /\ lineIdx' = 0
    /\ numberQubits' \in Indeterminate
    /\ mup' = InitialMup(multiplier)
    /\ operators' = <<>>
    /\ wpc' = [k \in Terms |-> "idle"]
    /\ qasmOp' = [k \in Terms |-> <<>>]
    /\ parseOpMtx' = 0
    /\ critical' = [print |-> 0, qasmOperator |-> 0]
    /\ qasmOperators' = <<>>
    /\ inserted' = <<>>
    /\ qasm' = <<>>
    /\ result' = NoValue
    /\ UNCHANGED << args, cerr, outFile >>

Next ==
    \/ ReadLine
    \/ ReadLinesReturns
    \/ \E k \in Terms : Translate(k)
    \/ \E k \in Terms : PrintError(k)
    \/ \E k \in Terms : Exit(k)
    \/ \E k \in Terms : Lock(k)
    \/ \E k \in Terms : Insert(k)
    \/ BuildHeader
    \/ WriteOut
    \/ CallAgain

Spec == Init /\ [][Next]_vars

(***************************************************************************)
(* Single-term inputs: one line for every basis string over the Pauli      *)
(* letters and one unsupported letter, up to MaxQubits characters, compiled *)
(* by each entry point with the default arguments.                         *)
(***************************************************************************)
Letters == { "I", "X", "Y", "Z", "A" }

SingleTermFiles ==
    { [open |-> TRUE, lines |-> << << b, "2.5", "2" >> >>] :
        b \in SeqsUpTo(Letters, MaxQubits) \ { <<>> } }

InitSingleTerm ==
    /\ inFile \in SingleTermFiles
    /\ entry \in Entries
    /\ version = 2
    /\ multiplier = NoValue
    /\ outFilename = NoValue
    /\ call = 1
    /\ firstResult = NoValue
    /\ cerr = <<>>
    /\ outFile = NoValue
    /\ Constructed

SpecSingleTerm == InitSingleTerm /\ [][Next]_vars

(***************************************************************************)
(* Vocabulary of the properties.                                           *)
(***************************************************************************)
Returned == pc = "returned"

ReturnedText == ValueOf(result)

GateOps == { "rz", "ry(pi/2)", "ry(-pi/2)", "rx(-pi/2)", "rx(pi/2)", "cx" }

(* the block of the k-th loaded term *)
BlockOf(k) ==
    parseOpToQasm([operators[k] EXCEPT !.intOp = parseStrInt(operators[k].strRep).intRep],
                  mup)

RECURSIVE BlocksFrom(_)
BlocksFrom(k) ==
    IF k > Len(operators) THEN <<>> ELSE BlockOf(k) \o BlocksFrom(k + 1)

(* how many blocks of the text carry the comment of line idx *)
BlockCount(text, idx) ==
    Cardinality({ i \in DOMAIN text : text[i] = CommentLine(idx) })

AllIdentity(str) == \A i \in DOMAIN str : str[i] = "I"

(* the raw parameter field of line k *)
RawParameter(k) == ParseLongLong(inFile.lines[k][3]).val

ErrorRaised == \E j \in Terms : wpc[j] \in { "caught", "printed" }

(* C1: whatever the interleaving of the workers, the returned text is the   *)
(* header followed by the blocks of the terms in ascending sequenceIndex    *)
(* order, each term's block once.                                           *)
C1_HeaderThenBlocksAscending ==
    Returned => ReturnedText = Header(version, numberQubits) \o BlocksFrom(1)

(* C2: with no output file name given, the text returned by each entry      *)
(* point holds exactly n blocks, the block of every record exactly once.    *)
C2_EveryBlockExactlyOnce ==
    (Returned /\ outFilename = NoValue) =>
        /\ \A k \in 1..Len(operators) : BlockCount(ReturnedText, k) = 1
        /\ Cardinality({ i \in DOMAIN ReturnedText :
                            ReturnedText[i].op = CommentLine(0).op })
             = Len(operators)

(* C3: an input holding a term whose basis string is all 'I' never returns  *)
(* a result, and no returned instruction addresses a qubit outside          *)
(* 0..numberQubits-1.                                                       *)
C3_AllIdentityRejected ==
    Returned =>
        /\ \A k \in 1..Len(operators) : ~AllIdentity(operators[k].strRep)
        /\ \A i \in DOMAIN ReturnedText :
             ReturnedText[i].op \in GateOps =>
                /\ ReturnedText[i].q \in 0..(numberQubits - 1)
                /\ ReturnedText[i].op = "cx" =>
                      ReturnedText[i].t \in 0..(numberQubits - 1)

(* C4: a second compilation of the same input lines with the same version   *)
(* and multiplier returns the text the first one returned.                  *)
C4_SameTextTwice ==
    (Returned /\ call = 2) => result = firstResult

(* C5: once a term's decomposition has raised its error, no result text is  *)
(* returned and no term that has not started is started.                    *)
C5_ErrorStopsTheBatch ==
    [][ErrorRaised =>
          /\ result' = NoValue
          /\ \A k \in Terms : wpc[k] = "idle" => wpc'[k] = "idle"]_vars

(* the first line the loader rejects, from line k on; 0 if it rejects none *)
LineRejected(k) ==
    LET ex == Extract(inFile.lines[k])
    IN  \/ ~ex.ok
        \/ errorCheck(ex.strRep, ex.coef, ex.checkParam,
                      Len(inFile.lines[1][1])) # NoValue

RECURSIVE FirstRejectedFrom(_)
FirstRejectedFrom(k) ==
    IF k > Len(inFile.lines) THEN 0
    ELSE IF LineRejected(k) THEN k ELSE FirstRejectedFrom(k + 1)

NoWorkDone ==
    /\ \A j \in Terms : wpc[j] = "idle"
    /\ qasmOperators = <<>>
    /\ qasm = <<>>
    /\ result = NoValue
    /\ outFile = NoValue

(* C6: if line k is the first line that fails tokenization or validation,   *)
(* the loader reads no line after k, stores no term for line k, reports one *)
(* error carrying line number k and ends the process; no worker starts and  *)
(* nothing is returned or written.                                          *)
C6_LoadStopsAtFirstInvalidLine ==
    LET k == FirstRejectedFrom(1)
    IN  k > 0 =>
          /\ lineIdx <= k
          /\ NoWorkDone
          /\ call = 1
          /\ IF lineIdx = k
             THEN /\ pc = "exited"
                  /\ Len(operators) = k - 1
                  /\ Len(cerr) = 1
                  /\ cerr[1].idx = k
             ELSE /\ pc = "readLines"
                  /\ Len(operators) = lineIdx
                  /\ cerr = <<>>

(* C6 witness: line 1 of a two-line file was rejected and line 2 never read *)
C6_Witness ==
    /\ pc = "exited"
    /\ Len(inFile.lines) = 2
    /\ lineIdx = 1
    /\ cerr # <<>> /\ cerr[1].idx = 1
    /\ operators = <<>>

(* C7: a line is accepted only with exactly three fields; a line with fewer *)
(* or with more fails with the format error carrying its line number.       *)
C7_ExactlyThreeFields ==
    /\ \A k \in 1..Len(operators) : Len(inFile.lines[k]) = 3
    /\ (lineIdx >= 1 /\ Len(inFile.lines[lineIdx]) # 3) =>
          /\ pc = "exited"
          /\ cerr = << ErrorReport(lineIdx, "Wrong format!") >>

(* C8: numberQubits is the length of line 1's basis string, every loaded    *)
(* term has a basis string of that length, and a line k >= 2 that is        *)
(* reached and tokenizes but has another length ends the load with the      *)
(* length-mismatch error carrying line number k.                            *)
C8_BasisLengthFixedByLineOne ==
    /\ \A k \in 1..Len(operators) :
         /\ numberQubits = Len(inFile.lines[1][1])
         /\ Len(operators[k].strRep) = numberQubits
    /\ ( /\ lineIdx >= 2
         /\ Extract(inFile.lines[lineIdx]).ok
         /\ Len(inFile.lines[lineIdx][1]) # Len(inFile.lines[1][1]) ) =>
          /\ pc = "exited"
          /\ Len(operators) = lineIdx - 1
          /\ cerr = << ErrorReport(lineIdx,
                          "Non-matching length of string representation!") >>

(* C8 witness: line 2 is shorter than line 1 and the load ended on it *)
C8_Witness ==
    /\ pc = "exited"
    /\ lineIdx = 2
    /\ cerr = << ErrorReport(2, "Non-matching length of string representation!") >>
    /\ Len(inFile.lines[2][1]) < Len(inFile.lines[1][1])

(* the parameter tokens $[..] of the rz instructions of a block *)
RzParameters(block) ==
    { block[i].ang[3] : i \in { j \in DOMAIN block : block[j].op = "rz" } }

(* the line named by the last comment at or before position i of a text *)
LineAt(text, i) ==
    LET comments == { j \in 1..i : text[j].op = CommentLine(0).op }
    IN  IF comments = {} THEN 0
        ELSE text[CHOOSE j \in comments : \A h \in comments : h <= j].q

(* the parameter tokens of the rz instructions in the blocks of line k *)
RzParametersOfLine(text, k) ==
    { text[i].ang[3] :
        i \in { j \in DOMAIN text : text[j].op = "rz" /\ LineAt(text, j) = k } }

NormalizedParameter(k) == IF RawParameter(k) = 0 THEN k ELSE RawParameter(k)

HeaderOps(text) == << text[1].op, text[2].op, text[3].op, text[4].op >>

Generated(k) == k \in Started /\ wpc[k] \in { "generated", "locked", "done" }

NonIdentity(str) == { p \in DOMAIN str : str[p] # "I" }

HighestOf(S) == CHOOSE p \in S : \A r \in S : r <= p

(* the positions of a block holding the instruction op, any op on qubit q *)
PlacesOf(block, op) == { i \in DOMAIN block : block[i].op = op }

PlacesOn(block, op, q) == { i \in DOMAIN block : block[i].op = op /\ block[i].q = q }

RzPlace(block) == CHOOSE i \in DOMAIN block : block[i].op = "rz"

RotationOps == { "ry(pi/2)", "ry(-pi/2)", "rx(-pi/2)", "rx(pi/2)" }

(* C11: for a term with a non-identity letter the block holds one rz, on    *)
(* the highest non-identity position (as index pivot - 1); every cx has a   *)
(* non-pivot non-identity control and the pivot as target; every such       *)
(* control has exactly two cx, so k letters give 2*(k-1) cx; every index    *)
(* lies in 0..numberQubits-1.                                               *)
C11_OneRzOnPivotAndCnotPairs ==
    \A k \in Terms :
      (Generated(k) /\ NonIdentity(operators[k].strRep) # {}) =>
        LET b == qasmOp[k]
            nz == NonIdentity(operators[k].strRep)
            pivot == HighestOf(nz)
        IN  /\ Cardinality(PlacesOf(b, "rz")) = 1
            /\ \A i \in PlacesOf(b, "rz") : b[i].q = pivot - 1
            /\ \A i \in PlacesOf(b, "cx") :
                 /\ b[i].t = pivot - 1
                 /\ (b[i].q + 1) \in nz \ { pivot }
            /\ \A p \in nz \ { pivot } : Cardinality(PlacesOn(b, "cx", p - 1)) = 2
            /\ Cardinality(PlacesOf(b, "cx")) = 2 * (Cardinality(nz) - 1)
            /\ \A i \in DOMAIN b :
                 b[i].op \in GateOps =>
                    /\ b[i].q \in 0..(numberQubits - 1)
                    /\ b[i].op = "cx" => b[i].t \in 0..(numberQubits - 1)

(* C11 witness: the block of XIYZ, pivot 4, with four cx *)
C11_Witness ==
    /\ Generated(1)
    /\ operators[1].strRep = << "X", "I", "Y", "Z" >>
    /\ Cardinality(PlacesOf(qasmOp[1], "cx")) = 4
    /\ PlacesOn(qasmOp[1], "rz", 3) # {}

(* the non-pivot positions of a letter, ascending *)
LayersOf(str, letter) ==
    SelectSeq([i \in 1..Len(str) |-> i],
              LAMBDA p : str[p] = letter /\ p # HighestOf(NonIdentity(str)))

(* the non-pivot layers in the order X, Y, Z *)
LayerOrder(str) == LayersOf(str, "X") \o LayersOf(str, "Y") \o LayersOf(str, "Z")

IsCx(instr) == instr.op = "cx"

(* the controls (1-based) of the cx after the rz, reading outward *)
ControlsAfterRz(b) ==
    LET cxs == SelectSeq(SubSeq(b, RzPlace(b) + 1, Len(b)), IsCx)
    IN  [i \in DOMAIN cxs |-> cxs[i].q + 1]

(* the controls (1-based) of the cx before the rz, reading outward *)
ControlsBeforeRz(b) ==
    LET cxs == SelectSeq(SubSeq(b, 1, RzPlace(b) - 1), IsCx)
    IN  [i \in DOMAIN cxs |-> cxs[Len(cxs) + 1 - i].q + 1]

(* C12: reading outward from the rz, the non-pivot layers come in the order *)
(* X list, Y list, Z list, each ascending, on both sides; the rotation of   *)
(* an X or Y layer lies directly outside its cx; the rotation pair of an X  *)
(* or Y pivot is the first and the last instruction of the block, which     *)
(* follows the comment naming the term's line.                              *)
C12_NestingOrder ==
    \A k \in Terms :
      (Generated(k) /\ NonIdentity(operators[k].strRep) # {}) =>
        LET b == qasmOp[k]
            str == operators[k].strRep
            pivot == HighestOf(NonIdentity(str))
            rz == RzPlace(b)
        IN  /\ b[1] = CommentLine(operators[k].index)
            /\ PlacesOf(b, CommentLine(0).op) = { 1 }
            /\ ControlsAfterRz(b) = LayerOrder(str)
            /\ ControlsBeforeRz(b) = LayerOrder(str)
            /\ \A i \in PlacesOf(b, "cx") :
                 str[b[i].q + 1] \in { "X", "Y" } =>
                    LET outside == IF i < rz THEN i - 1 ELSE i + 1
                    IN  /\ outside \in DOMAIN b
                        /\ b[outside].op \in RotationOps
                        /\ b[outside].q = b[i].q
            /\ str[pivot] \in { "X", "Y" } =>
                 /\ b[2].op \in RotationOps /\ b[2].q = pivot - 1
                 /\ b[Len(b)].op \in RotationOps /\ b[Len(b)].q = pivot - 1
                 /\ Len(b) > 2

(* C12 witness: the block of ZYXX: pivot 4 (X), layers 3 (X), 2 (Y), 1 (Z) *)
C12_Witness ==
    /\ Generated(1)
    /\ operators[1].strRep = << "Z", "Y", "X", "X" >>
    /\ ControlsAfterRz(qasmOp[1]) = << 3, 2, 1 >>
    /\ qasmOp[1][2] = Instr("ry(pi/2)", 3, 0, NoAngle)

(* C13: a qubit with letter X has ry(pi/2) before and ry(-pi/2) after the   *)
(* rz and no rx; one with letter Y has rx(-pi/2) before and rx(pi/2) after  *)
(* and no ry; one with letter Z or I has no rotation; whichever axis lists  *)
(* are empty.                                                               *)
C13_RotationsOfOwnLetter ==
    \A k \in Terms :
      Generated(k) =>
        LET b == qasmOp[k]
            str == operators[k].strRep
            rz == RzPlace(b)
            OnceBefore(op, q) ==
                /\ Cardinality(PlacesOn(b, op, q)) = 1
                /\ \A i \in PlacesOn(b, op, q) : i < rz
            OnceAfter(op, q) ==
                /\ Cardinality(PlacesOn(b, op, q)) = 1
                /\ \A i \in PlacesOn(b, op, q) : i > rz
            Never(op, q) == PlacesOn(b, op, q) = {}
        IN  \A p \in DOMAIN str :
              CASE str[p] = "X" ->
                     /\ OnceBefore("ry(pi/2)", p - 1) /\ OnceAfter("ry(-pi/2)", p - 1)
                     /\ Never("rx(-pi/2)", p - 1) /\ Never("rx(pi/2)", p - 1)
                [] str[p] = "Y" ->
                     /\ OnceBefore("rx(-pi/2)", p - 1) /\ OnceAfter("rx(pi/2)", p - 1)
                     /\ Never("ry(pi/2)", p - 1) /\ Never("ry(-pi/2)", p - 1)
                [] OTHER ->
                     \A op \in RotationOps : Never(op, p - 1)

(* C13 witness: the block of ZYIZ, whose X list is empty: qubit 1 (Y) has   *)
(* the rx pair and the Z qubits have no rotation                            *)
C13_Witness ==
    /\ Generated(1)
    /\ operators[1].strRep = << "Z", "Y", "I", "Z" >>
    /\ PlacesOn(qasmOp[1], "rx(-pi/2)", 1) # {}
    /\ PlacesOf(qasmOp[1], "ry(pi/2)") = {}

Supported(str) == \A i \in DOMAIN str : str[i] \in { "I", "X", "Y", "Z" }

StrictlyAscending(vec) == \A i, j \in DOMAIN vec : i < j => vec[i] < vec[j]

Elements(vec) == { vec[i] : i \in DOMAIN vec }

(* C14: on a basis string over I, X, Y, Z the decomposition gives three     *)
(* strictly ascending, pairwise disjoint lists of 1-based positions, p in   *)
(* the X (Y, Z) list exactly when character p is X (Y, Z); on any other     *)
(* string it fails: the exception is caught, no list and no block exist.    *)
C14_Decomposition ==
    \A k \in Terms :
      (k \in Started /\ wpc[k] # "idle") =>
        LET str == operators[k].strRep
            lists == operators[k].intOp
        IN  IF Supported(str)
            THEN /\ Generated(k)
                 /\ entry = "parseCircuitOpenMP" =>
                      /\ Len(lists) = 3
                      /\ \A a \in 1..3 : StrictlyAscending(lists[a])
                      /\ \A a, c \in 1..3 :
                           a # c => Elements(lists[a]) \cap Elements(lists[c]) = {}
                      /\ \A p \in DOMAIN str :
                           /\ p \in Elements(lists[1]) <=> str[p] = "X"
                           /\ p \in Elements(lists[2]) <=> str[p] = "Y"
                           /\ p \in Elements(lists[3]) <=> str[p] = "Z"
                      /\ \A a \in 1..3 : Elements(lists[a]) \subseteq DOMAIN str
            ELSE /\ wpc[k] \in { "caught", "printed" }
                 /\ lists = <<>>
                 /\ qasmOp[k] = <<>>
                 /\ k \notin DOMAIN qasmOperators

(* C14 witness: the lists of XYZZ stored by the OpenMP loop *)
C14_Witness ==
    /\ entry = "parseCircuitOpenMP"
    /\ Generated(1)
    /\ operators[1].strRep = << "X", "Y", "Z", "Z" >>
    /\ operators[1].intOp = << <<1>>, <<2>>, <<3, 4>> >>

NegativeTokens == { "-1" }

(* decimal tokens above 2^64 - 1, the largest unsigned long *)
TokensAboveUnsignedLong == { "18446744073709551616" }

(* line k has three fields and passes every test but those on the parameter *)
ValidButForParameter(k) ==
    LET line == inFile.lines[k]
    IN  /\ Len(line) = 3
        /\ line[1] # <<>>
        /\ Len(line[1]) = Len(inFile.lines[1][1])
        /\ ParseFloat(line[2]).ok
        /\ ParseFloat(line[2]).val # 0

(* C15: a line whose raw parameter is negative is rejected with "Negative   *)
(* parameter!", and a line whose raw parameter exceeds the largest unsigned *)
(* long is rejected with "Parameter out of bound!".                         *)
C15_ParameterRangeErrors ==
    \A k \in 1..Len(inFile.lines) :
      (/\ inFile.open
       /\ lineIdx = k
       /\ FirstRejectedFrom(1) = k
       /\ ValidButForParameter(k)) =>
         /\ inFile.lines[k][3] \in NegativeTokens =>
              /\ pc = "exited"
              /\ cerr = << ErrorReport(k, "Negative parameter!") >>
         /\ inFile.lines[k][3] \in TokensAboveUnsignedLong =>
              /\ pc = "exited"
              /\ cerr = << ErrorReport(k, "Parameter out of bound!") >>

(* the worker of term k is between taking and releasing the lock *)
Inserting(k) == wpc[k] = "locked"

(* C16: no two workers are inside the insertion into the result map at the  *)
(* same time, on the mutex paths and on the OpenMP path; the worker that is *)
(* inside holds the lock; every key is written once, by its own worker.     *)
C16_InsertionsMutuallyExclusive ==
    /\ \A j, k \in Terms : (Inserting(j) /\ Inserting(k)) => j = k
    /\ \A k \in Terms :
         Inserting(k) => IF entry = "parseCircuitOpenMP"
                         THEN critical.qasmOperator = k
                         ELSE parseOpMtx = k
    /\ \A i, j \in DOMAIN inserted : i # j => inserted[i] # inserted[j]
    /\ { inserted[i] : i \in DOMAIN inserted } = DOMAIN qasmOperators
    /\ \A k \in 1..Len(operators) :
         wpc[k] = "done" <=> operators[k].index \in DOMAIN qasmOperators

(* C16 witness: worker 2 is inserting while worker 1 waits with its block *)
C16_Witness ==
    /\ Inserting(2)
    /\ wpc[1] = "generated"
    /\ qasmOperators = <<>>

Assembling == pc \in { "writeOut", "returned" }

(* C17: the header is built, and the map read, only when every worker has   *)
(* written its block: from then on the map holds one entry for each index   *)
(* 1..n; before, no text has been built, returned or written.               *)
C17_AssemblyAfterAllWorkers ==
    /\ Assembling =>
         /\ \A k \in 1..Len(operators) : wpc[k] = "done"
         /\ DOMAIN qasmOperators = 1..Len(operators)
         /\ Len(inserted) = Len(operators)
         /\ \A k \in 1..Len(operators) : qasmOperators[k] = qasmOp[k]
    /\ ~Assembling =>
         /\ qasm = <<>>
         /\ result = NoValue
         /\ call = 1 => outFile = NoValue

(* C17 witness: assembly starts after worker 2, then worker 1, has written *)
C17_Witness ==
    /\ pc = "writeOut"
    /\ Len(operators) = 2
    /\ inserted = << 2, 1 >>

Unsupported == { k \in 1..Len(operators) : ~Supported(operators[k].strRep) }

LowestOf(S) == CHOOSE p \in S : \A r \in S : p <= r

(* C18: when two or more loaded terms have an unsupported character, the    *)
(* process exits with exactly one report, naming the lowest such line.      *)
C18_LowestOffendingLineReported ==
    (pc = "exited" /\ Cardinality(Unsupported) >= 2) =>
        cerr = << ErrorReport(LowestOf(Unsupported),
                              "Unsupported character instruction!") >>

MultiplierText ==
    IF multiplier = NoValue THEN << "0.5*" >>
    ELSE << StdToString(ValueOf(multiplier)), "*" >>

(* every rz of a text carries the prefix *)
CarriesPrefix(text, prefix) ==
    \A i \in DOMAIN text : text[i].op = "rz" => text[i].ang[1] = prefix

(* C19: in every state of a compilation the multiplier text is "0.5*" when  *)
(* no multiplier was given and the given value followed by "*" otherwise,   *)
(* so no step of a worker changes it; every block built, stored or returned *)
(* carries it in its rz.                                                    *)
C19_MultiplierTextFixed ==
    /\ mup = MultiplierText
    /\ \A k \in Terms : CarriesPrefix(qasmOp[k], MultiplierText)
    /\ \A k \in DOMAIN qasmOperators : CarriesPrefix(qasmOperators[k], MultiplierText)
    /\ Returned => CarriesPrefix(ReturnedText, MultiplierText)

(* C19 witness: two blocks returned with the prefix of the multiplier 2.0 *)
C19_Witness ==
    /\ multiplier = Some(20)
    /\ Returned
    /\ Len(operators) = 2
    /\ mup = << "2.000000", "*" >>
    /\ \E i \in DOMAIN ReturnedText :
         ReturnedText[i].op = "rz" /\ ReturnedText[i].ang[1] = << "2.000000", "*" >>

C21_ReturnedTextIndependentOfFile ==
    (entry = "parseCircuitSeq" /\ Returned) =>
        /\ ReturnedText = Header(version, numberQubits) \o AllOperators(qasmOperators)
        /\ (call = 1 /\ outFile # NoValue) => ValueOf(outFile) = ReturnedText

(* the instruction that undoes a basis change, a cx being its own mirror *)
Mirrored(instr) ==
    [instr EXCEPT !.op = CASE @ = "ry(pi/2)"  -> "ry(-pi/2)"
                           [] @ = "ry(-pi/2)" -> "ry(pi/2)"
                           [] @ = "rx(-pi/2)" -> "rx(pi/2)"
                           [] @ = "rx(pi/2)"  -> "rx(-pi/2)"
                           [] OTHER           -> @]

(* C22: after the comment line a block is mirror-symmetric around its one   *)
(* rz: the i-th instruction after the rz is the i-th instruction before it  *)
(* with a cx unchanged and a rotation replaced by the same-axis rotation on *)
(* the same qubit with the opposite sign; the instructions before the rz    *)
(* are the opening rotations and cx only.                                   *)
C22_MirrorSymmetric ==
    \A k \in Terms :
      Generated(k) =>
        LET b == qasmOp[k]
            rz == RzPlace(b)
        IN  /\ PlacesOf(b, "rz") = { rz }
            /\ Len(b) - rz = rz - 2
            /\ \A i \in 1..(Len(b) - rz) :
                 /\ b[rz - i].op \in { "cx", "ry(pi/2)", "rx(-pi/2)" }
                 /\ b[rz + i] = Mirrored(b[rz - i])

(* C22 witness: the block of XYZ: ry(pi/2) and cx on qubit 0, rx(-pi/2) and *)
(* cx on qubit 1 before the rz on qubit 2, and their mirror after it        *)
C22_Witness ==
    /\ Generated(1)
    /\ operators[1].strRep = << "X", "Y", "Z" >>
    /\ Len(qasmOp[1]) = 10
    /\ qasmOp[1][RzPlace(qasmOp[1]) - 1] = Instr("cx", 0, 2, NoAngle)
    /\ qasmOp[1][RzPlace(qasmOp[1]) + 2] = Instr("ry(-pi/2)", 0, 0, NoAngle)

====
